---- MODULE Spec2Model ----
(***************************************************************************)
(* A model of gopherhal's chain index ("the brain"): learning a sentence   *)
(* into overlapping chains of chainLen words (ghal/brain.go AddSentence),  *)
(* the bidirectional random walk that builds a sentence around a keyword   *)
(* (ghal/brain.go makeSentence), the reader/writer lock that protects the  *)
(* brain, and the snapshot codec (Brain.Save / LoadBrain).                  *)
(***************************************************************************)
EXTENDS Integers, Sequences, FiniteSets, TLC

(***************************************************************************)
(* Program constants.                                                      *)
(***************************************************************************)
chainLen == 4

continueChance == 128

RandRange == 256

(***************************************************************************)
(* Bounds of the model.                                                    *)
(*   MaxLearned: the total number of words all AddSentence calls of one    *)
(*               run may be given (the sum of the sentences' lengths).     *)
(*   MaxChains:  the number of chains of the largest Brain that sentences   *)
(*               are generated from.                                       *)
(*   MaxSaved:   the number of chains of the largest Brain that is saved.  *)
(*   MaxBatch:   the number of sentences of the longest AddSentences call. *)
(***************************************************************************)
MaxLearned == 10

MaxChains == 3

MaxSaved == 3

MaxBatch == 2
\* The number of sets passed to one call of Union.
MaxOthers == 2
\* The largest n passed to ChooseRandom.
MaxChoose == 3

(***************************************************************************)
(* Words.  A Word is the struct {Tag, Text}; two Words are equal iff both  *)
(* fields are equal.                                                       *)
(***************************************************************************)
QuestionMark == [Tag |-> ".", Text |-> "?"]

Cat == [Tag |-> "NN", Text |-> "cat"]

ZeroWord == [Tag |-> "", Text |-> ""]

Words == {QuestionMark, Cat}

(***************************************************************************)
(* Chains: arrays of chainLen Words, here sequences indexed 1..chainLen    *)
(* (the source's c[i] is c[i+1] here).                                     *)
(***************************************************************************)
ZeroChain == [k \in 1..chainLen |-> ZeroWord]

\* The value that stands for makeChain's panic.
ChainPanic == "panic: incorrect number of words for chain"

\* makeChain: panics unless there are chainLen words, else copies them.
makeChain(words) ==
  IF Len(words) /= chainLen
  THEN ChainPanic
  ELSE [k \in 1..chainLen |-> words[k]]

PushBefore(c, word) == [k \in 1..chainLen |-> IF k = 1 THEN word ELSE c[k - 1]]

\* PushAfter that overwrites the last word without moving the others.
PushAfter_NoShift(c, word) == [k \in 1..chainLen |-> IF k = chainLen THEN word ELSE c[k]]

PushAfter(c, word) == [k \in 1..chainLen |-> IF k = chainLen THEN word ELSE c[k + 1]]

(***************************************************************************)
(* Go maps with set values.  A map is a function whose DOMAIN is the set   *)
(* of keys present; reading an absent key yields the nil (empty) set.      *)
(***************************************************************************)
EmptyMap == [x \in {} |-> {}]

Get(m, k) == IF k \in DOMAIN m THEN m[k] ELSE {}

\* An index expression that gives a missing key an empty entry.
IndexExpr_Inserts(m, k) ==
  IF k \in DOMAIN m THEN m ELSE [x \in DOMAIN m \cup {k} |-> IF x = k THEN {} ELSE m[x]]

\* The map m after the index expression m[k] was evaluated in a read
\* (`chains := b.wordChains[w]`, `b.wordsBefore[current]`): Go gives the zero
\* value for a missing key and leaves the map as it is.
IndexExpr(m, k) == m

\* MapAdd that makes a new set also when the key is present.
MapAdd_Replace(m, k, v) ==
  [x \in (DOMAIN m) \cup {k} |-> IF x = k THEN {v} ELSE m[x]]

\* if _, ok := m[k]; !ok { m[k] = make(set) }; m[k].Add(v)
MapAdd(m, k, v) ==
  [x \in (DOMAIN m) \cup {k} |-> IF x = k THEN Get(m, k) \cup {v} ELSE m[x]]

(***************************************************************************)
(* The Brain.                                                              *)
(***************************************************************************)
NewBrain ==
  [ wordChains  |-> EmptyMap,
    chains      |-> {},
    wordsAfter  |-> EmptyMap,
    wordsBefore |-> EmptyMap,
    startChains |-> {},
    endChains   |-> {} ]

\* IndexWords whose loop stops one word early.
RECURSIVE IndexWords_StopEarly(_, _, _)
IndexWords_StopEarly(wc, chn, k) ==
  IF k > chainLen - 1 THEN wc
  ELSE IndexWords_StopEarly(MapAdd(wc, chn[k], chn), chn, k + 1)

\* for _, w := range chn { ... b.wordChains[w].Add(chn) }, from position k on.
RECURSIVE IndexWords(_, _, _)
IndexWords(wc, chn, k) ==
  IF k > chainLen THEN wc
  ELSE IndexWords(MapAdd(wc, chn[k], chn), chn, k + 1)

\* LearnBefore without its else branch.
LearnBefore_NoElse(b, s, i, chn) ==
  IF i = 0
  THEN [b EXCEPT !.startChains = @ \cup {chn}]
  ELSE b

\* if i == 0 { startChains.Add(chn) } else { wordsBefore[chn].Add(s[i-1]) }
LearnBefore(b, s, i, chn) ==
  IF i = 0
  THEN [b EXCEPT !.startChains = @ \cup {chn}]
  ELSE [b EXCEPT !.wordsBefore = MapAdd(@, chn, s[i])]

\* LearnAfter that records the window's own last word, s[i+chainLen-1].
LearnAfter_OffByOne(b, s, i, chn) ==
  IF i = (Len(s) - (chainLen - 1)) - 1
  THEN [b EXCEPT !.endChains = @ \cup {chn}]
  ELSE [b EXCEPT !.wordsAfter = MapAdd(@, chn, s[i + chainLen])]

\* if i == maxIdx-1 { endChains.Add(chn) } else { wordsAfter[chn].Add(s[i+chainLen]) }
LearnAfter(b, s, i, chn) ==
  IF i = (Len(s) - (chainLen - 1)) - 1
  THEN [b EXCEPT !.endChains = @ \cup {chn}]
  ELSE [b EXCEPT !.wordsAfter = MapAdd(@, chn, s[i + chainLen + 1])]

\* AddWindow that adds the chain to `chains` only for the first window.
AddWindow_ChainsFirstOnly(b, s, i) ==
  LET chn == makeChain(SubSeq(s, i + 1, i + chainLen))
      b1  == [b EXCEPT !.chains = IF i = 0 THEN @ \cup {chn} ELSE @,
                       !.wordChains = IndexWords(@, chn, 1)]
  IN LearnAfter(LearnBefore(b1, s, i, chn), s, i, chn)

\* One iteration of AddSentence's loop, for the window at 0-based index i.
AddWindow(b, s, i) ==
  LET chn == makeChain(SubSeq(s, i + 1, i + chainLen))
      b1  == [b EXCEPT !.chains = @ \cup {chn},
                       !.wordChains = IndexWords(@, chn, 1)]
  IN LearnAfter(LearnBefore(b1, s, i, chn), s, i, chn)

\* AddLoop whose bound is one too small: the last window is not visited.
RECURSIVE AddLoop_OneShort(_, _, _)
AddLoop_OneShort(b, s, i) ==
  IF i < Len(s) - (chainLen - 1) - 1
  THEN AddLoop_OneShort(AddWindow(b, s, i), s, i + 1)
  ELSE b

\* The loop `for i := 0; i < maxIdx; i++`, from index i on.
RECURSIVE AddLoop(_, _, _)
AddLoop(b, s, i) ==
  IF i < Len(s) - (chainLen - 1)
  THEN AddLoop(AddWindow(b, s, i), s, i + 1)
  ELSE b

\* Learn whose length check also turns away sentences of chainLen words.
Learn_SkipsExact(b, s) == IF Len(s) <= chainLen THEN b ELSE AddLoop(b, s, 0)

\* The effect of AddSentence(s) on the brain b.
Learn(b, s) == IF Len(s) < chainLen THEN b ELSE AddLoop(b, s, 0)


(***************************************************************************)
(* The state.                                                              *)
(*   brain    the shared Brain (its six index structures)                  *)
(*   mut      the Brain's sync.RWMutex: writer holds it, a writer is       *)
(*            pending (Lock called, readers still inside), and the readers *)
(*            that hold it                                                 *)
(*   learned  the number of words indexed so far (sentences long enough    *)
(*            to be learned), bounded by MaxLearned                        *)
(*   wr       the goroutine running AddSentence one loop iteration at a    *)
(*            time: its position, its sentence and its loop index          *)
(*   gen      for each generating goroutine, the locals of makeSentence    *)
(*   corpus   the sentences of at least chainLen words that completed      *)
(*            AddSentence calls were given (a history variable)            *)
(*   file     the bytes the last Save wrote, as the magic prefix and the   *)
(*            msgpack document that follows it                             *)
(*   saved    the Brain as it was when the last Save ran (a history        *)
(*            variable)                                                    *)
(*   loaded   what the last LoadBrain returned: a Brain or an error        *)
(*   rep      the locals of the MakeReply call in progress: its position,  *)
(*            the sentences it was given,                                  *)
(*            the three word sets of the inputs, the keyword set, the      *)
(*            keywords still to be tried in the order the range visits     *)
(*            them, the candidates generated so far and the result         *)
(*   batch    the AddSentences call: its position, the sentences of its    *)
(*            argument that the loop has reached, and the Brain as it was  *)
(*            before the call (a history field)                            *)
(***************************************************************************)
VARIABLES brain, mut, learned, wr, gen, corpus, file, saved, loaded, rep, batch,
          setop

vars == <<brain, mut, learned, wr, gen, corpus, file, saved, loaded, rep, batch,
          setop>>

codecVars == <<file, saved, loaded>>

Readers == {"r1"}

\* All sentences of at most n words.
SentencesUpTo(n) == UNION {[1..k -> Words] : k \in 0..n}

\* The number of words AddSentence(s) indexes.
Cost(s) == IF Len(s) < chainLen THEN 0 ELSE Len(s)

\* The sentences offered to AddSentence in the current state: all those
\* within the budget while a sentence long enough to be learned fits and no
\* other AddSentence holds or awaits the lock; otherwise the empty sentence
\* stands for the calls that return before Lock().
Learnable ==
  IF MaxLearned - learned >= chainLen /\ ~mut.writer /\ ~mut.pending
  THEN SentencesUpTo(MaxLearned - learned)
  ELSE {<<>>}

\* The chains the forward loop of makeSentence can reach from c in one
\* iteration, and those the backward loop can.
NextChains(b, c) == {PushAfter(c, w) : w \in Get(b.wordsAfter, c)}

PrevChains(b, c) == {PushBefore(c, w) : w \in Get(b.wordsBefore, c)}

\* No chain of S lies on a circle of iterations: taking away, again and
\* again, the chains of S from which no iteration leads to a chain left in
\* S leaves nothing.
RECURSIVE NoCircle(_, _, _)
NoCircle(b, S, forward) ==
  LET last == {c \in S : (IF forward THEN NextChains(b, c) ELSE PrevChains(b, c)) \cap S = {}}
  IN  IF S = {} THEN TRUE
      ELSE IF last = {} THEN FALSE
           ELSE NoCircle(b, S \ last, forward)

\* Both loops of makeSentence end on b whatever the random numbers: the loops
\* have no bound of their own, and a walk goes on for as long as the chains
\* lead on (a Brain that learned [cat cat cat cat cat] lets a walk go on for
\* ever).
WalksEnd(b) == NoCircle(b, b.chains, TRUE) /\ NoCircle(b, b.chains, FALSE)

\* The Brains that sentences are generated from: those within MaxChains on
\* which every walk ends.
Walkable(b) == Cardinality(b.chains) <= MaxChains /\ WalksEnd(b)

\* The number of words of the largest corpus that is saved: MaxSaved windows
\* in two sentences.
SavedWords == MaxSaved + 2 * (chainLen - 1)

IdleWriter == [pc |-> "idle", s |-> <<>>, i |-> 0]

IdleGen ==
  [ pc |-> "idle", w |-> ZeroWord, mustBeStart |-> FALSE, mustBeEnd |-> FALSE,
    middleChain |-> ZeroChain, current |-> ZeroChain,
    before |-> <<>>, after |-> <<>>, ret |-> <<>> ]

\* There is no file of the brain file's name: os.Open fails, and there is
\* no byte to read.  (An existing file of no bytes is
\* [magic |-> <<>>, doc |-> <<>>].)
NoFile == [magic |-> <<>>, doc |-> <<>>, missing |-> TRUE]

NotLoaded == [err |-> "none"]

FreeMutex == [writer |-> FALSE, pending |-> FALSE, readers |-> {}]

IdleReply ==
  [ pc |-> "idle", input |-> <<>>,
    allWords |-> {}, nouns |-> {}, properNouns |-> {},
    keywords |-> {}, todo |-> <<>>, ss |-> <<>>, ret |-> <<>> ]

NoBatch == [pc |-> "idle", ss |-> <<>>, before |-> NewBrain]

\* No call of a set operation has been made.
NoSetOp == [op |-> "none", s |-> {}, others |-> <<>>, n |-> 0, ret |-> <<>>, after |-> {}]

Init ==
  /\ brain = NewBrain
  /\ mut = FreeMutex
  /\ learned = 0
  /\ wr = IdleWriter
  /\ gen = [r \in Readers |-> IdleGen]
  /\ corpus = {}
  /\ file = NoFile
  /\ saved = NewBrain
  /\ loaded = NotLoaded
  /\ rep = IdleReply
  /\ batch = NoBatch
  /\ setop = NoSetOp

\* An unrecovered panic in any goroutine ends the process.
Crashed == \E r \in Readers : gen[r].pc = "panic"

(***************************************************************************)
(* sync.RWMutex.                                                           *)
(***************************************************************************)
\* Lock() taken for RLock(): it waits for a writer only.
CanLock_AsRLock(m) == ~m.writer

\* b.mut.Lock() returns once no reader and no writer holds the lock.
CanLock(m) == m.readers = {} /\ ~m.writer

\* RLock() that does not wait for anything.
CanRLock_NoWait(m) == TRUE

\* b.mut.RLock() returns unless a writer holds the lock or is waiting for it.
CanRLock(m) == ~m.writer /\ ~m.pending

(***************************************************************************)
(* AddSentence as one step: Lock, the whole loop, Unlock.                  *)
(***************************************************************************)
AddSentence(s) ==
  /\ ~Crashed
  /\ wr.pc = "idle"
  /\ learned + Cost(s) <= MaxLearned
  /\ Len(s) < chainLen \/ (CanLock(mut) /\ ~mut.pending)
  /\ brain' = Learn(brain, s)
  /\ corpus' = IF Len(s) < chainLen THEN corpus ELSE corpus \cup {s}
  /\ learned' = learned + Cost(s)
  /\ UNCHANGED <<mut, wr, gen, codecVars, rep, batch, setop>>


(***************************************************************************)
(* AddSentences: `for _, s := range ss { b.AddSentence(s) }`.  The         *)
(* argument is drawn one sentence at a time, as the loop reaches it.       *)
(***************************************************************************)
AddSentencesBegin ==
  /\ ~Crashed
  /\ wr.pc = "idle"
  /\ batch.pc = "idle"
  /\ batch' = [pc |-> "loop", ss |-> <<>>, before |-> brain]
  /\ UNCHANGED <<brain, mut, learned, wr, gen, corpus, codecVars, rep, setop>>

\* One iteration: b.AddSentence(s) for the next sentence s of the argument.
AddSentencesStep(s) ==
  /\ ~Crashed
  /\ batch.pc = "loop"
  /\ Len(batch.ss) < MaxBatch
  /\ learned + Cost(s) <= MaxLearned
  /\ Len(s) < chainLen \/ (CanLock(mut) /\ ~mut.pending)
  /\ brain' = Learn(brain, s)
  /\ corpus' = IF Len(s) < chainLen THEN corpus ELSE corpus \cup {s}
  /\ learned' = learned + Cost(s)
  /\ batch' = [batch EXCEPT !.ss = Append(@, s)]
  /\ UNCHANGED <<mut, wr, gen, codecVars, rep, setop>>

\* The range is over: the call returns.
AddSentencesEnd ==
  /\ ~Crashed
  /\ batch.pc = "loop"
  /\ batch' = [batch EXCEPT !.pc = "done"]
  /\ UNCHANGED <<brain, mut, learned, wr, gen, corpus, codecVars, rep, setop>>

(***************************************************************************)
(* SpecBatch: a first sentence is learned or not, then one batch of        *)
(* sentences.                                                              *)
(***************************************************************************)
\* Sentences that are too short to be learned: one of each length.
ShortSentences ==
  {SubSeq(<<QuestionMark, Cat, QuestionMark>>, 1, n) : n \in 0..(chainLen - 1)}

\* The sentences a batch is made of: the short ones, and all of chainLen or
\* chainLen + 1 words.
BatchSentences ==
  ShortSentences \cup {s \in SentencesUpTo(chainLen + 1) : Len(s) >= chainLen}

NextBatch ==
  \/ batch.pc = "idle" /\ corpus = {} /\ \E s \in BatchSentences : AddSentence(s)
  \/ AddSentencesBegin
  \/ \E s \in BatchSentences : AddSentencesStep(s)
  \/ AddSentencesEnd

SpecBatch == Init /\ [][NextBatch]_vars

(***************************************************************************)
(* AddSentence one step at a time, by the goroutine wr.                    *)
(***************************************************************************)
\* The call, up to b.mut.Lock(): a sentence that is too short returns at
\* once; otherwise the goroutine blocks in Lock, which keeps new readers out.
AddBegin(s) ==
  /\ ~Crashed
  /\ wr.pc = "idle"
  /\ learned + Cost(s) <= MaxLearned
  /\ IF Len(s) < chainLen
     THEN UNCHANGED <<wr, mut, learned>>
     ELSE /\ wr' = [pc |-> "lock", s |-> s, i |-> 0]
          /\ mut' = [mut EXCEPT !.pending = TRUE]
          /\ learned' = learned + Cost(s)
  /\ UNCHANGED <<brain, gen, corpus, codecVars, rep, batch, setop>>

\* Lock() returns.
AddLock ==
  /\ ~Crashed
  /\ wr.pc = "lock"
  /\ CanLock(mut)
  /\ mut' = [mut EXCEPT !.writer = TRUE, !.pending = FALSE]
  /\ wr' = [wr EXCEPT !.pc = "loop"]
  /\ UNCHANGED <<brain, learned, gen, corpus, codecVars, rep, batch, setop>>

\* One iteration of the loop.
AddStep ==
  /\ ~Crashed
  /\ wr.pc = "loop"
  /\ wr.i < Len(wr.s) - (chainLen - 1)
  /\ brain' = AddWindow(brain, wr.s, wr.i)
  /\ wr' = [wr EXCEPT !.i = @ + 1]
  /\ UNCHANGED <<mut, learned, gen, corpus, codecVars, rep, batch, setop>>

\* The loop is over: the deferred Unlock runs and the call returns.
AddUnlock ==
  /\ ~Crashed
  /\ wr.pc = "loop"
  /\ ~(wr.i < Len(wr.s) - (chainLen - 1))
  /\ mut' = [mut EXCEPT !.writer = FALSE]
  /\ corpus' = corpus \cup {wr.s}
  /\ wr' = IdleWriter
  /\ UNCHANGED <<brain, learned, gen, codecVars, rep, batch, setop>>

(***************************************************************************)
(* makeSentence.                                                           *)
(***************************************************************************)
\* The chains the mustBeEnd scan accepts: it skips c when
\* c[chainLen-1] != w || !b.endChains.Has(c).
EndSeeds(b, w) ==
  {c \in Get(b.wordChains, w) : ~(c[chainLen] /= w \/ c \notin b.endChains)}

\* The chains the mustBeStart scan accepts: it skips c when
\* c[0] != w || !b.startChains.Has(c).
StartSeeds(b, w) ==
  {c \in Get(b.wordChains, w) : ~(c[1] /= w \/ c \notin b.startChains)}

\* ReturnsNil without the check of the lookup's result.
ReturnsNil_NoLookupCheck(b, w, mustBeStart, mustBeEnd) ==
  ~mustBeEnd /\ mustBeStart /\ StartSeeds(b, w) = {}

\* makeSentence returns nil before the walk: unknown word, or the
\* mustBeStart scan found no chain (the mustBeEnd scan has no such check).
ReturnsNil(b, w, mustBeStart, mustBeEnd) ==
  \/ Get(b.wordChains, w) = {}
  \/ ~mustBeEnd /\ mustBeStart /\ StartSeeds(b, w) = {}

\* SeedChains whose unconstrained choice is among all chains of the Brain.
SeedChains_AnyChain(b, w, mustBeStart, mustBeEnd) ==
  IF mustBeEnd
  THEN IF EndSeeds(b, w) = {} THEN {ZeroChain} ELSE EndSeeds(b, w)
  ELSE IF mustBeStart
       THEN StartSeeds(b, w)
       ELSE b.chains

\* The values middleChain may have when the walk starts.  The scans take the
\* first match in map order; a mustBeEnd scan without a match leaves
\* middleChain at its zero value.
SeedChains(b, w, mustBeStart, mustBeEnd) ==
  IF mustBeEnd
  THEN IF EndSeeds(b, w) = {} THEN {ZeroChain} ELSE EndSeeds(b, w)
  ELSE IF mustBeStart
       THEN StartSeeds(b, w)
       ELSE Get(b.wordChains, w)

\* The words of `before` in the order the walk added them.
Reverse_Keeps(q) == q

Reverse(q) == [k \in 1..Len(q) |-> q[Len(q) + 1 - k]]

\* The locals after one iteration of the backward loop, for every outcome of
\* rand.Intn(256) and of ChooseOneRandom.
BackIter(b, g) ==
  LET wb   == Get(b.wordsBefore, g.current)
      stop == {[g EXCEPT !.pc = "fwd", !.current = g.middleChain]}
      go   == IF wb = {}
              THEN {[g EXCEPT !.pc = "panic"]}
              ELSE {[g EXCEPT !.before = Append(@, nw),
                              !.current = PushBefore(@, nw)] : nw \in wb}
  IN IF g.current \in b.startChains
     THEN IF wb /= {}
          THEN UNION {IF d >= continueChance THEN stop ELSE go :
                        d \in 0..(RandRange - 1)}
          ELSE stop
     ELSE go

\* The locals after one iteration of the forward loop; on break the result
\* is assembled: reversed before, middleChain, after.
FwdIter(b, g) ==
  LET wa   == Get(b.wordsAfter, g.current)
      stop == {[g EXCEPT !.pc = "done",
                         !.ret = Reverse(g.before) \o g.middleChain \o g.after]}
      go   == IF wa = {}
              THEN {[g EXCEPT !.pc = "panic"]}
              ELSE {[g EXCEPT !.after = Append(@, nw),
                              !.current = PushAfter(@, nw)] : nw \in wa}
  IN IF g.current \in b.endChains
     THEN IF wa /= {}
          THEN UNION {IF d >= continueChance THEN stop ELSE go :
                        d \in 0..(RandRange - 1)}
          ELSE stop
     ELSE go

\* The call makeSentence(w, mustBeStart, mustBeEnd) by goroutine r, up to the
\* start of the backward loop: RLock, the lookup and the choice of the seed.
\* What becomes of rep is the caller's business.
makeSentence(r, w, mustBeStart, mustBeEnd) ==
  /\ ~Crashed
  /\ gen[r].pc = "idle"
  /\ CanRLock(mut)
  /\ LET g == [IdleGen EXCEPT !.w = w, !.mustBeStart = mustBeStart,
                              !.mustBeEnd = mustBeEnd]
     IN IF ReturnsNil(brain, w, mustBeStart, mustBeEnd)
        THEN /\ gen' = [gen EXCEPT ![r] = [g EXCEPT !.pc = "done"]]
             /\ mut' = mut
        ELSE /\ \E c \in SeedChains(brain, w, mustBeStart, mustBeEnd) :
                  gen' = [gen EXCEPT ![r] = [g EXCEPT !.pc = "back",
                                                      !.middleChain = c,
                                                      !.current = c]]
             /\ mut' = [mut EXCEPT !.readers = @ \cup {r}]
  /\ brain' = [brain EXCEPT !.wordChains = IndexExpr(@, w)]
  /\ UNCHANGED <<learned, wr, corpus, codecVars, batch, setop>>

MakeSentenceWithKeyword(r, w) == makeSentence(r, w, FALSE, FALSE)

MakeSentenceStartingKeyword(r, w) == makeSentence(r, w, TRUE, FALSE)

MakeQuestion(r) == makeSentence(r, QuestionMark, FALSE, TRUE)

MakeReason(r) == makeSentence(r, QuestionMark, TRUE, FALSE)

\* One iteration of the backward loop of goroutine r.  A panic runs the
\* deferred RUnlock.
BackStep(r) ==
  /\ ~Crashed
  /\ gen[r].pc = "back"
  /\ \E g \in BackIter(brain, gen[r]) :
       /\ gen' = [gen EXCEPT ![r] = g]
       /\ mut' = IF g.pc = "panic"
                 THEN [mut EXCEPT !.readers = @ \ {r}]
                 ELSE mut
  /\ brain' = [brain EXCEPT !.wordsBefore = IndexExpr(@, gen[r].current)]
  /\ UNCHANGED <<learned, wr, corpus, codecVars, rep, batch, setop>>

\* One iteration of the forward loop of goroutine r.  Returning, or a panic,
\* runs the deferred RUnlock.
FwdStep(r) ==
  /\ ~Crashed
  /\ gen[r].pc = "fwd"
  /\ \E g \in FwdIter(brain, gen[r]) :
       /\ gen' = [gen EXCEPT ![r] = g]
       /\ mut' = IF g.pc \in {"done", "panic"}
                 THEN [mut EXCEPT !.readers = @ \ {r}]
                 ELSE mut
  /\ brain' = [brain EXCEPT !.wordsAfter = IndexExpr(@, gen[r].current)]
  /\ UNCHANGED <<learned, wr, corpus, codecVars, rep, batch, setop>>

\* The caller takes the result; the goroutine may call again.  What becomes
\* of rep is the caller's business.
Return(r) ==
  /\ ~Crashed
  /\ gen[r].pc = "done"
  /\ gen' = [gen EXCEPT ![r] = IdleGen]
  /\ UNCHANGED <<brain, mut, learned, wr, corpus, codecVars, batch, setop>>

(***************************************************************************)
(* Spec: whole sentences are learned between the steps of generation.      *)
(***************************************************************************)
\* The generation entry points called directly (not from MakeReply), and the
\* steps of the walks.
Generate(r) ==
  \/ rep.pc = "idle" /\ UNCHANGED rep /\ \E w \in Words : MakeSentenceWithKeyword(r, w)
  \/ rep.pc = "idle" /\ UNCHANGED rep /\ \E w \in Words : MakeSentenceStartingKeyword(r, w)
  \/ rep.pc = "idle" /\ UNCHANGED rep /\ MakeQuestion(r)
  \/ rep.pc = "idle" /\ UNCHANGED rep /\ MakeReason(r)
  \/ BackStep(r)
  \/ FwdStep(r)
  \/ rep.pc = "idle" /\ UNCHANGED rep /\ Return(r)

Next ==
  \/ \E s \in Learnable : AddSentence(s) /\ Walkable(brain')
  \/ \E r \in Readers : Generate(r)

Spec == Init /\ [][Next]_vars

\* Learning alone: every sentence within MaxLearned, a walk over which may
\* never end included.
NextLearn == \E s \in Learnable : AddSentence(s)

SpecLearn == Init /\ [][NextLearn]_vars


(***************************************************************************)
(* SpecConc: a goroutine that learns and a goroutine that generates,       *)
(* interleaved at every loop iteration.                                    *)
(***************************************************************************)
NextConc ==
  \/ \E s \in Learnable : AddBegin(s) /\ Walkable(Learn(brain, s))
  \/ AddLock
  \/ AddStep
  \/ AddUnlock
  \/ \E r \in Readers : Generate(r)

SpecConc == Init /\ [][NextConc]_vars

\* The orders in which ranging over a Go map may visit the set S.
Orders(S) ==
  {q \in [1..Cardinality(S) -> S] : \A i, j \in 1..Cardinality(S) : q[i] = q[j] => i = j}

(***************************************************************************)
(* MakeReply.                                                              *)
(***************************************************************************)
IsNoun(w) == w.Tag \in {"NN", "NNS", "NNP", "NNPS"}

IsProperNoun(w) == w.Tag \in {"NNP", "NNPS"}

\* Sentence.Words, Sentence.Nouns and Sentence.ProperNouns.
SentenceWords(s) == {s[k] : k \in 1..Len(s)}

SentenceNouns(s) == {w \in SentenceWords(s) : IsNoun(w)}

SentenceProperNouns(s) == {w \in SentenceWords(s) : IsProperNoun(w)}

\* WordSet.Union: nil (the empty set) when the receiver and the first of the
\* others are empty, otherwise the receiver's words and all the others'.
Union(s, others) ==
  IF s = {} /\ (Len(others) = 0 \/ others[1] = {})
  THEN {}
  ELSE s \cup UNION {others[k] : k \in 1..Len(others)}

\* The loop `for _, s := range ss` that gathers the three word sets, from
\* input sentence k on.
RECURSIVE ReplySets(_, _, _)
ReplySets(ss, k, acc) ==
  IF k > Len(ss) THEN acc
  ELSE ReplySets(ss, k + 1,
         [ allWords    |-> Union(acc.allWords, <<SentenceWords(ss[k])>>),
           nouns       |-> Union(acc.nouns, <<SentenceNouns(ss[k])>>),
           properNouns |-> Union(acc.properNouns, <<SentenceProperNouns(ss[k])>>) ])

\* Keywords that falls back to the nouns only when there is no proper noun.
Keywords_AtLeastOne(sets) ==
  IF Cardinality(sets.properNouns) < 1 THEN sets.nouns ELSE sets.properNouns

\* keywords := properNouns; if len(keywords) < 2 { keywords = nouns }
Keywords(sets) ==
  IF Cardinality(sets.properNouns) < 2 THEN sets.nouns ELSE sets.properNouns

\* The points one word of a candidate earns.
WordScore(w, r) ==
    (IF IsProperNoun(w) THEN 2 ELSE 0)
  + (IF w \in r.nouns THEN 3 ELSE 0)
  + (IF w \in r.properNouns THEN 4 ELSE 0)
  + (IF w \in r.allWords THEN 1 ELSE 0)

\* The inner loop `for _, w := range s`.
RECURSIVE Score(_, _)
Score(s, r) ==
  IF s = <<>> THEN 0 ELSE WordScore(Head(s), r) + Score(Tail(s), r)

\* BestLoop that also replaces the winner on an equal score.
RECURSIVE BestLoop_LastWins(_, _, _, _, _)
BestLoop_LastWins(ss, k, bestScore, bestSentence, r) ==
  IF k > Len(ss) THEN bestSentence
  ELSE IF Score(ss[k], r) >= bestScore
       THEN BestLoop_LastWins(ss, k + 1, Score(ss[k], r), ss[k], r)
       ELSE BestLoop_LastWins(ss, k + 1, bestScore, bestSentence, r)

\* The scoring loop from candidate k on: if score > bestScore { ... }.
RECURSIVE BestLoop(_, _, _, _, _)
BestLoop(ss, k, bestScore, bestSentence, r) ==
  IF k > Len(ss) THEN bestSentence
  ELSE IF Score(ss[k], r) > bestScore
       THEN BestLoop(ss, k + 1, Score(ss[k], r), ss[k], r)
       ELSE BestLoop(ss, k + 1, bestScore, bestSentence, r)

\* What MakeReply returns for the candidates ss.
BestReply(ss, r) ==
  IF Len(ss) = 0 THEN <<>>
  ELSE IF Len(ss) = 1 THEN ss[1]
       ELSE BestLoop(ss, 1, -1, <<>>, r)

\* The call MakeReply(ss...) on goroutine r, up to the loop over the
\* keywords: the word sets, the keyword set and the order in which the range
\* over the keyword map will visit it.  No keyword: the call returns nil.
MakeReply(r, ss) ==
  /\ ~Crashed
  /\ rep.pc = "idle"
  /\ gen[r].pc = "idle"
  /\ LET sets == ReplySets(ss, 1, [allWords |-> {}, nouns |-> {}, properNouns |-> {}])
         kws  == Keywords(sets)
         r0   == [IdleReply EXCEPT !.input = ss,
                                   !.allWords = sets.allWords,
                                   !.nouns = sets.nouns,
                                   !.properNouns = sets.properNouns,
                                   !.keywords = kws]
     IN IF Cardinality(kws) = 0
        THEN rep' = [r0 EXCEPT !.pc = "done"]
        ELSE \E order \in Orders(kws) :
               rep' = [r0 EXCEPT !.pc = "call", !.todo = order]
  /\ UNCHANGED <<brain, mut, learned, wr, gen, corpus, codecVars, batch, setop>>

\* s := b.MakeSentenceWithKeyword(w) for the next keyword.
ReplyCall(r) ==
  /\ rep.pc = "call"
  /\ rep.todo /= <<>>
  /\ MakeSentenceWithKeyword(r, Head(rep.todo))
  /\ rep' = [rep EXCEPT !.pc = "wait"]

\* if len(s) > 0 { ss = append(ss, s) }, and on to the next keyword.
ReplyTake(r) ==
  /\ rep.pc = "wait"
  /\ Return(r)
  /\ rep' = [rep EXCEPT !.pc = "call",
                        !.todo = Tail(@),
                        !.ss = IF Len(gen[r].ret) > 0
                               THEN Append(@, gen[r].ret)
                               ELSE @]

\* The loop over the keywords is over: the candidates are scored and the
\* call returns.
ReplyChoose ==
  /\ ~Crashed
  /\ rep.pc = "call"
  /\ rep.todo = <<>>
  /\ rep' = [rep EXCEPT !.pc = "done", !.ret = BestReply(rep.ss, rep)]
  /\ UNCHANGED <<brain, mut, learned, wr, gen, corpus, codecVars, batch, setop>>

\* The caller takes the reply.
ReplyReturn ==
  /\ ~Crashed
  /\ rep.pc = "done"
  /\ rep' = IdleReply
  /\ UNCHANGED <<brain, mut, learned, wr, gen, corpus, codecVars, batch, setop>>

Reply(r) ==
  \/ ReplyCall(r)
  \/ ReplyTake(r)
  \/ ReplyChoose
  \/ ReplyReturn

(***************************************************************************)
(* What a corpus of learned sentences is to leave in the Brain, stated     *)
(* from the sentences rather than from the loop.                           *)
(***************************************************************************)
\* The 0-based indices of the windows of s, and the window at index i.
WindowIdx(s) == 0..(Len(s) - chainLen)

WindowAt(s, i) == SubSeq(s, i + 1, i + chainLen)

\* The 0-based word s[i] of the source.
At(s, i) == s[i + 1]

WindowsOf(S) == UNION {{WindowAt(s, i) : i \in WindowIdx(s)} : s \in S}

FirstWindows(S) == {WindowAt(s, 0) : s \in S}

LastWindows(S) == {WindowAt(s, Len(s) - chainLen) : s \in S}

\* The words seen right before / right after chain c in a sentence of S.
SeenBefore(S, c) ==
  UNION {{At(s, i - 1) : i \in {j \in WindowIdx(s) : j > 0 /\ WindowAt(s, j) = c}} : s \in S}

SeenAfter(S, c) ==
  UNION {{At(s, i + chainLen) :
            i \in {j \in WindowIdx(s) : j < Len(s) - chainLen /\ WindowAt(s, j) = c}} : s \in S}

WordsOfChain(c) == {c[k] : k \in 1..chainLen}

\* A map and the set-valued function it stands for agree: every key holds
\* the function's value and every absent key has the empty value.
MapIs(m, keys, F(_)) ==
  /\ DOMAIN m \subseteq keys
  /\ \A k \in keys : Get(m, k) = F(k)

(***************************************************************************)
(* The snapshot codec.  A file is its first four bytes and the msgpack     *)
(* document after them.  The document of an fBrain is the map with the     *)
(* struct tags as keys: chainLen, chains (each a map w, a, b, s, e) and    *)
(* words (each the array [Text, Tag] that fWord.MarshalMsgpack writes).    *)
(* Word-table indices are 0-based, as in the file.                         *)
(***************************************************************************)
fMagic == <<"Q", "W", "O", "K">>

\* fWord.MarshalMsgpack: the array [Text, Tag].
MarshalMsgpack(fw) == <<fw.Text, fw.Tag>>

\* fWord.UnmarshalMsgpack with Text and Tag taken from the wrong elements.
UnmarshalMsgpack_Swapped(v) == [Tag |-> v[1], Text |-> v[2]]

\* fWord.UnmarshalMsgpack: Text = v[0], Tag = v[1].
UnmarshalMsgpack(v) == [Tag |-> v[2], Text |-> v[1]]

\* msgpack.Marshal(&fb) and msgpack.Unmarshal(src, &fb).
Marshal(fb) ==
  [ chainLen |-> fb.ChainLen,
    chains   |-> fb.Chains,
    words    |-> [k \in 1..Len(fb.Words) |-> MarshalMsgpack(fb.Words[k])] ]

\* Bytes that are no msgpack document of an fBrain: no bytes at all, or the
\* bytes given raw (such as the unused code 0xC1, or a document cut short).
Undecodable(doc) == doc = <<>> \/ "raw" \in DOMAIN doc

\* msgpack.Unmarshal(src[4:], &fb): the error, or the fBrain.
Unmarshal(doc) ==
  IF Undecodable(doc)
  THEN [err |-> IF doc = <<>> THEN "EOF" ELSE "msgpack: invalid code"]
  ELSE [ err |-> "",
         fb  |-> [ ChainLen |-> doc.chainLen,
                   Chains   |-> doc.chains,
                   Words    |-> [k \in 1..Len(doc.words) |->
                                   UnmarshalMsgpack(doc.words[k])] ] ]

\* The 0-based position of w in the word table.
IndexOf(words, w) == (CHOOSE k \in 1..Len(words) : words[k] = w) - 1

\* Save's wordIdx closure applied to the words of q in order: the word table
\* afterwards and the indices returned.
RECURSIVE wordIdx(_, _, _)
wordIdx(words, q, idxs) ==
  IF q = <<>> THEN [words |-> words, idxs |-> idxs]
  ELSE LET w  == Head(q)
           fw == [Tag |-> w.Tag, Text |-> w.Text]
       IN IF \E k \in 1..Len(words) : words[k] = fw
          THEN wordIdx(words, Tail(q), Append(idxs, IndexOf(words, fw)))
          ELSE wordIdx(Append(words, fw), Tail(q), Append(idxs, Len(words)))

\* The body of Save's loop for chain c, with wordsAfter[c] ranged over in
\* the order ao and wordsBefore[c] in the order bo.
SaveChain(b, fb, c, ao, bo) ==
  LET w1 == wordIdx(fb.Words, c, <<>>)
      w2 == wordIdx(w1.words, ao, <<>>)
      w3 == wordIdx(w2.words, bo, <<>>)
      fc == [ w |-> w1.idxs, a |-> w2.idxs, b |-> w3.idxs,
              s |-> c \in b.startChains, e |-> c \in b.endChains ]
  IN [fb EXCEPT !.Words = w3.words, !.Chains = Append(@, fc)]

\* Every fBrain Save may build from the chains still to visit.
RECURSIVE SaveLoop(_, _, _)
SaveLoop(b, todo, fb) ==
  IF todo = {} THEN {fb}
  ELSE UNION {SaveLoop(b, todo \ {c}, SaveChain(b, fb, c, ao, bo)) :
                <<c, ao, bo>> \in
                  UNION {{c2} \X Orders(Get(b.wordsAfter, c2))
                              \X Orders(Get(b.wordsBefore, c2)) : c2 \in todo}}

\* The files Save may write for Brain b.
SaveFiles(b) ==
  {[magic |-> fMagic, doc |-> Marshal(fb)] :
     fb \in SaveLoop(b, b.chains, [ChainLen |-> chainLen, Chains |-> <<>>, Words |-> <<>>])}

\* wordByIdx that takes the nearest word of the table for an index outside it.
wordByIdx_Clamps(fb, i) ==
  LET j == IF i < 0 THEN 0 ELSE IF i >= Len(fb.Words) THEN Len(fb.Words) - 1 ELSE i
  IN [Text |-> fb.Words[j + 1].Text, Tag |-> fb.Words[j + 1].Tag]

\* LoadBrain's wordByIdx closure.
wordByIdx(fb, i) ==
  IF i >= Len(fb.Words) \/ i < 0
  THEN ZeroWord
  ELSE [Text |-> fb.Words[i + 1].Text, Tag |-> fb.Words[i + 1].Tag]

\* for _, w := range c { ... ret.wordChains[w].Add(c) }, from position k on.
RECURSIVE LoadIndexWords(_, _, _)
LoadIndexWords(wc, c, k) ==
  IF k > chainLen THEN wc
  ELSE LoadIndexWords(MapAdd(wc, c[k], c), c, k + 1)

\* if _, exists := m[c]; !exists { m[c] = make(WordSet) }, then Add each word.
LoadWords(m, c, ws) ==
  [x \in (DOMAIN m) \cup {c} |-> IF x = c THEN Get(m, c) \cup ws ELSE m[x]]

\* The body of LoadBrain's loop for the well-formed chain record fc.
LoadChain(ret, fb, fc) ==
  LET c == [k \in 1..chainLen |-> wordByIdx(fb, fc.w[k])]
  IN [ chains      |-> ret.chains \cup {c},
       wordChains  |-> LoadIndexWords(ret.wordChains, c, 1),
       wordsAfter  |-> LoadWords(ret.wordsAfter, c,
                                 {wordByIdx(fb, fc.a[k]) : k \in 1..Len(fc.a)}),
       wordsBefore |-> LoadWords(ret.wordsBefore, c,
                                 {wordByIdx(fb, fc.b[k]) : k \in 1..Len(fc.b)}),
       startChains |-> IF fc.s THEN ret.startChains \cup {c} ELSE ret.startChains,
       endChains   |-> IF fc.e THEN ret.endChains \cup {c} ELSE ret.endChains ]

\* LoadLoop that passes over a record whose word list has the wrong length.
RECURSIVE LoadLoop_SkipsBadChain(_, _, _)
LoadLoop_SkipsBadChain(ret, fb, k) ==
  IF k > Len(fb.Chains) THEN [err |-> "", brain |-> ret]
  ELSE IF Len(fb.Chains[k].w) /= chainLen
       THEN LoadLoop_SkipsBadChain(ret, fb, k + 1)
       ELSE LoadLoop_SkipsBadChain(LoadChain(ret, fb, fb.Chains[k]), fb, k + 1)

\* LoadBrain's loop over fb.Chains from record k on: the Brain, or the error
\* of the first record whose word list has the wrong length.
RECURSIVE LoadLoop(_, _, _)
LoadLoop(ret, fb, k) ==
  IF k > Len(fb.Chains) THEN [err |-> "", brain |-> ret]
  ELSE IF Len(fb.Chains[k].w) /= chainLen
       THEN [err |-> "chain has wrong length"]
       ELSE LoadLoop(LoadChain(ret, fb, fb.Chains[k]), fb, k + 1)

\* A reader over the bytes of file f that delivers them all.
Reading(f) == [err |-> "", src |-> f]

\* What ioutil.ReadAll may give for a reader over file f: all the bytes, or
\* an error of the reader.
ReadAll(f) == {Reading(f), [err |-> "read error", src |-> f]}

\* LoadBrain that compares only the first three bytes with the magic value.
LoadBrain_ShortMagic(r) ==
  IF r.err /= ""
  THEN [err |-> r.err]
  ELSE IF Len(r.src.magic) < 4 \/ SubSeq(r.src.magic, 1, 3) /= SubSeq(fMagic, 1, 3)
  THEN [err |-> "not a brain file"]
  ELSE LET u == Unmarshal(r.src.doc)
       IN IF u.err /= ""
          THEN [err |-> "invalid brain file"]
          ELSE IF u.fb.ChainLen /= chainLen
               THEN [err |-> "wrong chain length"]
               ELSE LoadLoop(NewBrain, u.fb, 1)

\* LoadBrain(r), r being what ioutil.ReadAll gave: the reader's error;
\* "not a brain file" without the magic value; "invalid brain file" when the
\* rest is no document; "wrong chain length"; else the loop's result.
LoadBrain(r) ==
  IF r.err /= ""
  THEN [err |-> r.err]
  ELSE IF Len(r.src.magic) < 4 \/ r.src.magic /= fMagic
  THEN [err |-> "not a brain file"]
  ELSE LET u == Unmarshal(r.src.doc)
       IN IF u.err /= ""
          THEN [err |-> "invalid brain file"]
          ELSE IF u.fb.ChainLen /= chainLen
               THEN [err |-> "wrong chain length"]
               ELSE LoadLoop(NewBrain, u.fb, 1)

\* os.Open's error for a file that does not exist (os.IsNotExist).
ErrNotExist == "no such file or directory"

\* LoadBrainFile: the results it may give for file f.  os.Open fails when
\* there is no file; else LoadBrain reads it.
LoadBrainFile(f) ==
  IF f = NoFile
  THEN {[err |-> ErrNotExist]}
  ELSE {LoadBrain(r) : r \in ReadAll(f)}

\* Brain.Save as one step, under the reader lock.
Save ==
  /\ ~Crashed
  /\ CanRLock(mut)
  /\ Cardinality(brain.chains) <= MaxSaved
  /\ file' \in SaveFiles(brain)
  /\ saved' = brain
  /\ UNCHANGED <<brain, mut, learned, wr, gen, corpus, loaded, rep, batch, setop>>

\* LoadBrainFile on the brain file as it is (or is not) there.
Load ==
  /\ ~Crashed
  /\ loaded' \in LoadBrainFile(file)
  /\ UNCHANGED <<brain, mut, learned, wr, gen, corpus, file, saved, rep, batch, setop>>

\* chat and train go on with what LoadBrainFile just gave for the file as
\* it is: its Brain when there is no error; for train, a new Brain when the
\* file does not exist.  (On another error both return 1.)  The program
\* starts anew: the Brain it had before is gone, and so is the count of the
\* words that Brain had learned.
Start ==
  /\ ~Crashed
  /\ wr.pc = "idle" /\ rep.pc = "idle" /\ batch.pc /= "loop"
  /\ \A r \in Readers : gen[r].pc = "idle"
  /\ loaded /= NotLoaded
  /\ \/ /\ loaded.err = ""
        /\ file /= NoFile
        /\ loaded = LoadBrain(Reading(file))
        /\ brain' = loaded.brain
        /\ UNCHANGED <<corpus, learned>>
     \/ /\ loaded.err = ErrNotExist
        /\ file = NoFile
        /\ brain' = NewBrain
        /\ corpus' = {}
        /\ learned' = 0
  /\ loaded' = NotLoaded
  /\ UNCHANGED <<mut, wr, gen, file, saved, rep, batch, setop>>

(***************************************************************************)
(* SpecCodec: one run of the program learns and, when it ends, saves its   *)
(* Brain (chat and train in main.go); the file is then loaded, and a run   *)
(* may start with what was loaded.  Before anything was saved there is no  *)
(* file.                                                                   *)
(***************************************************************************)
NextCodec ==
  \/ file = NoFile /\ \E s \in Learnable : AddSentence(s) /\ learned' <= SavedWords
  \/ file = NoFile /\ Save
  \/ Load
  \/ Start

SpecCodec == Init /\ [][NextCodec]_vars

(***************************************************************************)
(* SpecLoad: as SpecCodec, but the file that is loaded need not be what    *)
(* Save wrote: before it is loaded it may be cut short (before or right    *)
(* after the magic value), have other bytes in place of the magic value or *)
(* of the document, declare another chain length, or have a chain record   *)
(* whose word list is too short or too long.                               *)
(***************************************************************************)
\* The first bytes of a stream that is shorter than 4 bytes.
ShortMagics == {SubSeq(fMagic, 1, n) : n \in 0..3}

\* Four bytes that are not the magic value.
WrongMagics == {<<"Q", "W", "O", "X">>, <<"K", "O", "W", "Q">>}

\* File f is what some Save wrote, as far as LoadBrain checks it.
WellFormed(f) ==
  /\ f.magic = fMagic
  /\ ~Undecodable(f.doc)
  /\ f.doc.chainLen = chainLen
  /\ \A k \in 1..Len(f.doc.chains) : Len(f.doc.chains[k].w) = chainLen

\* The word list of chain record k of file f, replaced by w.
WithChainWords(f, k, w) == [f EXCEPT !.doc.chains[k].w = w]

\* The damaged files that file f may become.
Damaged(f) ==
       {[magic |-> m, doc |-> <<>>] : m \in ShortMagics}
  \cup {[magic |-> fMagic, doc |-> <<>>], [magic |-> fMagic, doc |-> [raw |-> <<193>>]]}
  \cup {[f EXCEPT !.magic = m] : m \in WrongMagics}
  \cup {[f EXCEPT !.doc.chainLen = n] : n \in {chainLen - 1, chainLen + 1}}
  \cup {WithChainWords(f, k, SubSeq(f.doc.chains[k].w, 1, chainLen - 1)) :
          k \in 1..Len(f.doc.chains)}
  \cup {WithChainWords(f, k, Append(f.doc.chains[k].w, 0)) :
          k \in {Len(f.doc.chains)} \ {0}}

\* The file is damaged before it is read.
Damage ==
  /\ ~Crashed
  /\ loaded = NotLoaded
  /\ WellFormed(file)
  /\ file' \in Damaged(file)
  /\ UNCHANGED <<brain, mut, learned, wr, gen, corpus, saved, loaded, rep, batch, setop>>

NextLoad ==
  \/ file = NoFile /\ \E s \in Learnable : AddSentence(s) /\ learned' <= SavedWords
  \/ file = NoFile /\ Save
  \/ Damage
  \/ Load

SpecLoad == Init /\ [][NextLoad]_vars

(***************************************************************************)
(* SpecIndex: one sentence is learned and saved, and before the file is    *)
(* loaded one word index of one chain record may be replaced by an index   *)
(* outside the word table.                                                 *)
(***************************************************************************)
\* Index i is a position of the word table of file f.
InTable(f, i) == i >= 0 /\ i < Len(f.doc.words)

\* The indices outside the word table that are written into a file.
OutsideTable(f) == {-1, Len(f.doc.words)}

\* Every word index of file f is a position of its word table.
InRange(f) ==
  \A k \in 1..Len(f.doc.chains) :
    /\ \A p \in 1..Len(f.doc.chains[k].w) : InTable(f, f.doc.chains[k].w[p])
    /\ \A p \in 1..Len(f.doc.chains[k].a) : InTable(f, f.doc.chains[k].a[p])
    /\ \A p \in 1..Len(f.doc.chains[k].b) : InTable(f, f.doc.chains[k].b[p])

\* The files that file f may become: the last index of the word list, or
\* the first index of the wordsAfter or wordsBefore list, of the first chain
\* record is outside the word table (Save writes the records in every
\* order, so every chain is the first record of some file).
Misindexed(f) ==
  IF f.doc.chains = <<>> THEN {} ELSE
       {[f EXCEPT !.doc.chains[1].w[chainLen] = i] : i \in OutsideTable(f)}
  \cup {[f EXCEPT !.doc.chains[1].a[1] = i] :
          i \in IF f.doc.chains[1].a /= <<>> THEN OutsideTable(f) ELSE {}}
  \cup {[f EXCEPT !.doc.chains[1].b[1] = i] :
          i \in IF f.doc.chains[1].b /= <<>> THEN OutsideTable(f) ELSE {}}

\* An index of the file is overwritten before the file is read.
Misindex ==
  /\ ~Crashed
  /\ loaded = NotLoaded
  /\ WellFormed(file)
  /\ InRange(file)
  /\ file' \in Misindexed(file)
  /\ UNCHANGED <<brain, mut, learned, wr, gen, corpus, saved, loaded, rep, batch, setop>>

NextIndex ==
  \/ file = NoFile /\ corpus = {} /\ \E s \in Learnable : AddSentence(s) /\ learned' <= SavedWords
  \/ file = NoFile /\ Save
  \/ Misindex
  \/ Load

SpecIndex == Init /\ [][NextIndex]_vars

(***************************************************************************)
(* SpecChat: a conversation.  One goroutine learns what is said, one       *)
(* goroutine replies (MakeReply) or calls the other entry points, and when *)
(* both are at rest the Brain is saved and the run ends (chat in main.go). *)
(* What is said has proper nouns, common nouns and other words.            *)
(***************************************************************************)
Bob == [Tag |-> "NNP", Text |-> "bob"]

Alice == [Tag |-> "NNP", Text |-> "alice"]

Dog == [Tag |-> "NN", Text |-> "dog"]

\* The sentences that are learned in a conversation.
ChatCorpus ==
  { <<Bob, Alice, Cat, QuestionMark>>,
    <<Cat, Alice, Bob, QuestionMark>>,
    <<Cat, Cat, Cat, QuestionMark>>,
    <<Alice, Bob, Cat, Cat>>,
    <<Bob, Cat, Cat, Cat, QuestionMark>> }

\* The inputs MakeReply is given: no sentence, no noun, an unknown noun, one
\* noun, a proper and a common noun, two proper nouns in one sentence, and
\* two proper nouns and a common noun in two sentences.
ChatInputs ==
  { <<>>,
    << <<QuestionMark>> >>,
    << <<Dog>> >>,
    << <<Cat>> >>,
    << <<Bob, Cat>> >>,
    << <<Bob, Alice>> >>,
    << <<Bob>>, <<Alice, Cat>> >> }

\* No call is in progress on any goroutine.
Quiescent ==
  /\ wr.pc = "idle"
  /\ rep.pc = "idle"
  /\ \A r \in Readers : gen[r].pc = "idle"

NextChat ==
  \/ file = NoFile /\ \E s \in ChatCorpus : AddBegin(s)
  \/ AddLock
  \/ AddStep
  \/ AddUnlock
  \/ file = NoFile /\ \E r \in Readers : Generate(r)
  \/ file = NoFile /\ \E r \in Readers : \E ss \in ChatInputs : MakeReply(r, ss)
  \/ \E r \in Readers : Reply(r)
  \/ file = NoFile /\ Quiescent /\ Save

SpecChat == Init /\ [][NextChat]_vars

(***************************************************************************)
(* SpecSets: calls of the set operations of WordSet and chainSet on sets   *)
(* built by Add.  setop records the last call: the operation, the receiver *)
(* s, the arguments, the result and the receiver after the call.  A nil    *)
(* result is recorded as the empty set.  A behaviour makes one call.       *)
(***************************************************************************)
\* The loop of ChooseRandomInto over the map in the order `order`:
\* `into = append(into, w); i++; if i >= n { break }`.
RECURSIVE ChooseLoop(_, _, _, _, _)
ChooseLoop(order, k, i, n, into) ==
  IF k > Len(order)
  THEN into
  ELSE IF i + 1 >= n
       THEN Append(into, order[k])
       ELSE ChooseLoop(order, k + 1, i + 1, n, Append(into, order[k]))

\* WordSet.ChooseRandomInto and chainSet.ChooseRandomInto for a buffer of
\* length n, the map being ranged over in the order `order`.
ChooseRandomInto(order, n) == ChooseLoop(order, 1, 0, n, <<>>)

\* WordSet.ChooseRandom(n) and chainSet.ChooseRandom(n).
ChooseRandom(order, n) == ChooseRandomInto(order, n)

\* The words and the chains the sets are made of.
SetWords == {Cat, Bob, QuestionMark}
SetChains ==
  {makeChain(<<Cat, Cat, Cat, Cat>>), makeChain(<<Cat, Cat, Cat, QuestionMark>>),
   makeChain(<<Bob, Cat, Cat, Cat>>)}

\* The argument lists of Union.
OthersLists == UNION {[1..k -> SUBSET SetWords] : k \in 0..MaxOthers}

\* s.Union(others...)
CallUnion ==
  /\ setop.op = "none"
  /\ \E s \in SUBSET SetWords : \E others \in OthersLists :
       /\ setop' = [op |-> "Union", s |-> s, others |-> others, n |-> 0,
                    ret |-> Union(s, others), after |-> s]
       /\ UNCHANGED <<brain, mut, learned, wr, gen, corpus, file, saved, loaded, rep, batch>>

\* s.ChooseRandom(n) on a WordSet
CallWordSetChooseRandom ==
  /\ setop.op = "none"
  /\ \E s \in SUBSET SetWords : \E n \in 0..MaxChoose : \E order \in Orders(s) :
       /\ setop' = [op |-> "WordSet.ChooseRandom", s |-> s, others |-> <<>>, n |-> n,
                    ret |-> ChooseRandom(order, n), after |-> s]
       /\ UNCHANGED <<brain, mut, learned, wr, gen, corpus, file, saved, loaded, rep, batch>>

\* s.ChooseRandom(n) on a chainSet
CallChainSetChooseRandom ==
  /\ setop.op = "none"
  /\ \E s \in SUBSET SetChains : \E n \in 0..MaxChoose : \E order \in Orders(s) :
       /\ setop' = [op |-> "chainSet.ChooseRandom", s |-> s, others |-> <<>>, n |-> n,
                    ret |-> ChooseRandom(order, n), after |-> s]
       /\ UNCHANGED <<brain, mut, learned, wr, gen, corpus, file, saved, loaded, rep, batch>>

NextSets == CallUnion \/ CallWordSetChooseRandom \/ CallChainSetChooseRandom

SpecSets == Init /\ [][NextSets]_vars

\* Brain b holds exactly what the sentences of S put there: the windows as
\* chains, the first and last windows as start and end chains, the words
\* seen before and after each chain, and the chains of each word.
IndexOf_Corpus(b, S) ==
  /\ b.chains = WindowsOf(S)
  /\ b.startChains = FirstWindows(S)
  /\ b.endChains = LastWindows(S)
  /\ MapIs(b.wordsBefore, b.chains, LAMBDA c : SeenBefore(S, c))
  /\ MapIs(b.wordsAfter, b.chains, LAMBDA c : SeenAfter(S, c))
  /\ \A c \in b.chains :
       /\ c \in DOMAIN b.wordsBefore => b.wordsBefore[c] /= {}
       /\ c \in DOMAIN b.wordsAfter => b.wordsAfter[c] /= {}
  /\ MapIs(b.wordChains, Words, LAMBDA w : {c \in WindowsOf(S) : w \in WordsOfChain(c)})

\* A walk of goroutine r is under way: it holds the reader lock.
InCS(r) == gen[r].pc \in {"back", "fwd"}

\* The chains a backward (forward) walk may make current from chain c on.
RECURSIVE BackReach(_, _, _)
BackReach(b, seen, front) ==
  IF front = {} THEN seen
  ELSE LET nxt == {PushBefore(c, w) : <<c, w>> \in
                     UNION {{c2} \X Get(b.wordsBefore, c2) : c2 \in front}}
       IN BackReach(b, seen \cup front, nxt \ (seen \cup front))

RECURSIVE FwdReach(_, _, _)
FwdReach(b, seen, front) ==
  IF front = {} THEN seen
  ELSE LET nxt == {PushAfter(c, w) : <<c, w>> \in
                     UNION {{c2} \X Get(b.wordsAfter, c2) : c2 \in front}}
       IN FwdReach(b, seen \cup front, nxt \ (seen \cup front))

----------------------------------------------------------------------------
(***************************************************************************)
(* Claims checked under Spec.                                              *)
(***************************************************************************)
\* C1: in every state reachable by AddSentence calls, every chain of
\* `chains` is a start chain or has a recorded preceding word, and is an end
\* chain or has a recorded following word.
C1_BoundaryOrNeighbour ==
  \A c \in brain.chains :
    /\ c \in brain.startChains \/ Get(brain.wordsBefore, c) /= {}
    /\ c \in brain.endChains \/ Get(brain.wordsAfter, c) /= {}

\* A sentence of more than chainLen words was learned: some chain is no
\* start chain and some chain is no end chain.
C1_Witness ==
  /\ \E c \in brain.chains : c \notin brain.startChains
  /\ \E c \in brain.chains : c \notin brain.endChains

\* C2: every non-empty sentence makeSentence returns has the keyword first
\* when mustBeStart was given and last when mustBeEnd was given.
C2_KeywordAtFlaggedPosition ==
  \A r \in Readers :
    LET g == gen[r]
    IN (g.pc = "done" /\ g.ret /= <<>>) =>
         /\ g.mustBeStart => g.ret[1] = g.w
         /\ g.mustBeEnd => g.ret[Len(g.ret)] = g.w

\* C3: a mustBeEnd call for a known keyword that ends no end chain returns
\* the empty sentence: it neither walks from a seed it did not select nor
\* panics.
C3_NoEndSeedReturnsEmpty ==
  \A r \in Readers :
    LET g == gen[r]
    IN (/\ g.pc /= "idle"
        /\ g.mustBeEnd
        /\ Get(brain.wordChains, g.w) /= {}
        /\ EndSeeds(brain, g.w) = {})
       => (g.pc = "done" /\ g.ret = <<>>)

\* C5: both walks of every generation call can always still stop, so that
\* under fair random draws the call returns: from the chain a backward walk
\* is at some start chain is reachable, from the chain a forward walk is
\* at some end chain is reachable, and no call ends in a panic.
C5_WalksCanStop ==
  \A r \in Readers :
    LET g == gen[r]
    IN /\ g.pc /= "panic"
       /\ g.pc = "back" =>
            BackReach(brain, {}, {g.current}) \cap brain.startChains /= {}
       /\ g.pc = "fwd" =>
            FwdReach(brain, {}, {g.current}) \cap brain.endChains /= {}

\* Two words are adjacent, in this order, in a learned sentence.
AdjacentInCorpus(a, b) ==
  \E s \in corpus : \E j \in 1..(Len(s) - 1) : s[j] = a /\ s[j + 1] = b

\* C6: every window of chainLen consecutive words of a sentence returned by
\* MakeSentenceWithKeyword is a learned chain, and every two adjacent words
\* of it are adjacent in a learned sentence.
C6_OutputWindowsAreChains ==
  \A r \in Readers :
    LET g == gen[r]
    IN (g.pc = "done" /\ ~g.mustBeStart /\ ~g.mustBeEnd) =>
         /\ \A i \in 1..(Len(g.ret) - chainLen + 1) :
              SubSeq(g.ret, i, i + chainLen - 1) \in brain.chains
         /\ \A i \in 1..(Len(g.ret) - 1) : AdjacentInCorpus(g.ret[i], g.ret[i + 1])

\* MakeSentenceWithKeyword returned a sentence that both walks extended.
C6_Witness ==
  \E r \in Readers :
    /\ gen[r].pc = "done" /\ ~gen[r].mustBeStart /\ ~gen[r].mustBeEnd
    /\ gen[r].before /= <<>> /\ gen[r].after /= <<>>
    /\ Len(gen[r].ret) = Len(gen[r].before) + chainLen + Len(gen[r].after)

\* wordChains of Brain b is exactly the index of b.chains by contained word.
WordChainsExact(b) ==
  /\ \A w \in DOMAIN b.wordChains \cup Words \cup {ZeroWord} :
       Get(b.wordChains, w) = {c \in b.chains : w \in WordsOfChain(c)}

\* C9: startChains and endChains are subsets of `chains`, and every key of
\* wordsBefore and of wordsAfter is a member of `chains`.
C9_IndexedChainsAreKnown ==
  /\ brain.startChains \subseteq brain.chains
  /\ brain.endChains \subseteq brain.chains
  /\ DOMAIN brain.wordsBefore \subseteq brain.chains
  /\ DOMAIN brain.wordsAfter \subseteq brain.chains

\* All four structures are populated.
C9_Witness ==
  /\ brain.startChains /= {} /\ brain.endChains /= {}
  /\ DOMAIN brain.wordsBefore /= {} /\ DOMAIN brain.wordsAfter /= {}
  /\ Cardinality(brain.chains) >= 3

\* C10: the Brain holds exactly what the learned sentences put there: every
\* window is a chain, the first window a start chain, the last an end chain,
\* the word before (after) each later (earlier) window is in wordsBefore
\* (wordsAfter) of its chain, and nothing else is in any structure.
C10_LearnedExactly == IndexOf_Corpus(brain, corpus)

\* A sentence with a window that is neither first nor last was learned, and
\* some chain was seen before two different words.
C10_Witness ==
  /\ \E s \in corpus : Len(s) >= chainLen + 2
  /\ \E c \in brain.chains : Cardinality(Get(brain.wordsAfter, c)) >= 2

\* Goroutine r runs, or has returned from, a call without positional flag
\* that went on to the walk.
WalksUnflagged(r) ==
  /\ gen[r].pc \in {"back", "fwd", "done", "panic"}
  /\ ~gen[r].mustBeStart /\ ~gen[r].mustBeEnd
  /\ gen[r].middleChain /= ZeroChain

\* C14: MakeSentenceWithKeyword(w) for a word w of a learned sentence goes
\* on to the walk from a chain that contains w, and whatever the draws it
\* does not panic and what it returns has at least chainLen words, w among
\* them.
C14_KnownKeywordYieldsSentence ==
  /\ [][\A r \in Readers :
          (/\ gen[r].pc = "idle" /\ gen'[r].pc /= "idle"
           /\ ~gen'[r].mustBeStart /\ ~gen'[r].mustBeEnd
           /\ Get(brain.wordChains, gen'[r].w) /= {})
          => (/\ gen'[r].pc = "back"
              /\ gen'[r].middleChain \in brain.chains
              /\ gen'[r].w \in WordsOfChain(gen'[r].middleChain))]_vars
  /\ [](\A r \in Readers :
          WalksUnflagged(r) =>
            /\ gen[r].pc /= "panic"
            /\ gen[r].pc = "done" =>
                 /\ Len(gen[r].ret) >= chainLen
                 /\ \E k \in 1..Len(gen[r].ret) : gen[r].ret[k] = gen[r].w)

\* MakeSentenceWithKeyword returned a sentence of more than chainLen words
\* for a keyword that is in two chains or more.
C14_Witness ==
  \E r \in Readers :
    /\ WalksUnflagged(r) /\ gen[r].pc = "done"
    /\ Len(gen[r].ret) > chainLen
    /\ Cardinality(Get(brain.wordChains, gen[r].w)) >= 2

\* The distinct windows of chainLen consecutive words of sentence s.
DistinctWindows(s) == {WindowAt(s, i) : i \in WindowIdx(s)}

\* Every word of s is a key of wordChains and is mapped to a chain of `chains`.
WordsAreIndexed(b, s) ==
  \A k \in 1..Len(s) :
    /\ s[k] \in DOMAIN b.wordChains
    /\ b.wordChains[s[k]] \cap b.chains /= {}

\* C11 as stated: after one sentence s was learned into the empty Brain,
\* `chains` has exactly Len(s) - chainLen + 1 members and every word of s is
\* a key of wordChains mapped to at least one of them.
C11_ChainCountIsWindowCount ==
  \A s \in corpus :
    corpus = {s} =>
      /\ Cardinality(brain.chains) = Len(s) - chainLen + 1
      /\ WordsAreIndexed(brain, s)

\* C11 as amended: after one sentence s was learned into the empty Brain,
\* `chains` has as many members as s has distinct windows, which is at most
\* Len(s) - chainLen + 1 and exactly that when no window of s repeats, and
\* every word of s is a key of wordChains mapped to at least one of them.
C11_ChainCountIsDistinctWindows ==
  \A s \in corpus :
    corpus = {s} =>
      /\ Cardinality(brain.chains) = Cardinality(DistinctWindows(s))
      /\ Cardinality(brain.chains) <= Len(s) - chainLen + 1
      /\ (\A i, j \in WindowIdx(s) : WindowAt(s, i) = WindowAt(s, j) => i = j)
           => Cardinality(brain.chains) = Len(s) - chainLen + 1
      /\ WordsAreIndexed(brain, s)

\* One sentence was learned in which a window repeats and another differs.
C11_Witness ==
  \E s \in corpus :
    /\ corpus = {s}
    /\ Cardinality(brain.chains) >= 2
    /\ Cardinality(brain.chains) < Len(s) - chainLen + 1

----------------------------------------------------------------------------
(***************************************************************************)
(* Claims checked under SpecCodec.                                         *)
(***************************************************************************)
\* Brains a and b have the same chains, start chains and end chains, and
\* the same words before and after every chain (no entry = no words).
SameIndex(a, b) ==
  /\ a.chains = b.chains
  /\ a.startChains = b.startChains
  /\ a.endChains = b.endChains
  /\ \A c \in a.chains \cup b.chains
            \cup DOMAIN a.wordsBefore \cup DOMAIN b.wordsBefore
            \cup DOMAIN a.wordsAfter \cup DOMAIN b.wordsAfter :
       /\ Get(a.wordsBefore, c) = Get(b.wordsBefore, c)
       /\ Get(a.wordsAfter, c) = Get(b.wordsAfter, c)

\* C7: LoadBrain of the bytes Save wrote succeeds and returns a Brain with
\* the saved Brain's chains, startChains, endChains, wordsBefore and
\* wordsAfter, in whatever order Save ranged over chains and words.
C7_RoundTrip ==
  (file /= NoFile /\ loaded = LoadBrain(Reading(file))) =>
     /\ loaded.err = ""
     /\ SameIndex(loaded.brain, saved)

\* A file with two chain records or more, one of them with a word before
\* and one with two words after, was written and loaded.
C7_Witness ==
  /\ file /= NoFile /\ loaded = LoadBrain(Reading(file))
  /\ Len(file.doc.chains) >= 2
  /\ \E k \in 1..Len(file.doc.chains) : file.doc.chains[k].b /= <<>>
  /\ \E k \in 1..Len(file.doc.chains) : Len(file.doc.chains[k].a) >= 2

\* C8: in every Brain reachable by AddSentence calls and in every Brain a
\* successful LoadBrain returns, wordChains[w] is exactly the set of chains
\* of `chains` that contain w, for every word w.
C8_WordChainsExact ==
  /\ WordChainsExact(brain)
  /\ loaded.err = "" => WordChainsExact(loaded.brain)

\* A learned Brain and a loaded Brain, each of two chains or more.
C8_Witness ==
  /\ Cardinality(brain.chains) >= 2
  /\ loaded.err = "" /\ Cardinality(loaded.brain.chains) >= 2
  /\ \E w \in Words : Cardinality(Get(loaded.brain.wordChains, w)) >= 2

\* Goroutine r is in a walk of a call without positional flag.
InUnflaggedWalk(r) ==
  /\ gen[r].pc \in {"back", "fwd"}
  /\ ~gen[r].mustBeStart /\ ~gen[r].mustBeEnd

\* C24: on a Brain built from NewBrain() by AddSentence calls, a call of
\* MakeSentenceWithKeyword (no positional flag) never draws from an empty
\* set: the seed and every chain a walk makes current by a shift is a member
\* of `chains`, and where the backward (forward) walk has to draw, at a
\* current chain that is no start (end) chain, wordsBefore[current]
\* (wordsAfter[current]) is not empty; such a call never panics.
C24_WalkNeverDrawsFromEmptySet ==
  \A r \in Readers :
    /\ InUnflaggedWalk(r) =>
         /\ gen[r].current \in brain.chains
         /\ (gen[r].pc = "back" /\ gen[r].current \notin brain.startChains)
              => Get(brain.wordsBefore, gen[r].current) /= {}
         /\ (gen[r].pc = "fwd" /\ gen[r].current \notin brain.endChains)
              => Get(brain.wordsAfter, gen[r].current) /= {}
    /\ gen[r].pc = "panic" => (gen[r].mustBeStart \/ gen[r].mustBeEnd)

\* A walk of a call without flag has shifted forward, and its current chain,
\* not the seed, is no end chain: the next draw is certain.
C24_Witness ==
  \E r \in Readers :
    /\ InUnflaggedWalk(r)
    /\ gen[r].pc = "fwd"
    /\ gen[r].after /= <<>>
    /\ gen[r].current /= gen[r].middleChain
    /\ gen[r].current \notin brain.endChains

----------------------------------------------------------------------------
(***************************************************************************)
(* Claims checked under SpecBatch.                                         *)
(***************************************************************************)
\* The sentences of ss of at least chainLen words, in order.
LongOnes(ss) == SelectSeq(ss, LAMBDA s : Len(s) >= chainLen)

\* The Brain after the sentences of ss were learned into b one by one.
RECURSIVE LearnAll(_, _)
LearnAll(b, ss) ==
  IF ss = <<>> THEN b ELSE LearnAll(Learn(b, Head(ss)), Tail(ss))

\* C13: a sentence of fewer than chainLen words (the empty one included)
\* leaves every structure of the Brain as it was, and AddSentences skips it
\* and learns the other sentences: while and after AddSentences runs, the
\* Brain is what learning only the long sentences reached so far makes of
\* the Brain before the call, it is that Brain itself when no long sentence
\* was reached, and every window of every long sentence is a chain.
C13_ShortSentencesIgnored ==
  batch.pc /= "idle" =>
    /\ brain = LearnAll(batch.before, LongOnes(batch.ss))
    /\ (\A k \in 1..Len(batch.ss) : Len(batch.ss[k]) < chainLen) => brain = batch.before
    /\ \A k \in 1..Len(batch.ss) :
         Len(batch.ss[k]) >= chainLen =>
           /\ DistinctWindows(batch.ss[k]) \subseteq brain.chains
           /\ WindowAt(batch.ss[k], 0) \in brain.startChains
           /\ WordsAreIndexed(brain, batch.ss[k])

\* AddSentences returned after a short sentence followed by a long one, on a
\* Brain that held a sentence before.
C13_Witness ==
  /\ batch.pc = "done"
  /\ batch.before /= NewBrain
  /\ Len(batch.ss) = 2
  /\ Len(batch.ss[1]) \in 1..(chainLen - 1)
  /\ Len(batch.ss[2]) >= chainLen
  /\ brain /= batch.before

----------------------------------------------------------------------------
(***************************************************************************)
(* Claims checked under SpecChat.                                          *)
(***************************************************************************)
\* Every structure of Brain b holds at least what it holds in Brain a.
Grows(a, b) ==
  /\ a.chains \subseteq b.chains
  /\ a.startChains \subseteq b.startChains
  /\ a.endChains \subseteq b.endChains
  /\ \A w \in DOMAIN a.wordChains : a.wordChains[w] \subseteq Get(b.wordChains, w)
  /\ \A c \in DOMAIN a.wordsBefore : a.wordsBefore[c] \subseteq Get(b.wordsBefore, c)
  /\ \A c \in DOMAIN a.wordsAfter : a.wordsAfter[c] \subseteq Get(b.wordsAfter, c)

\* C12: the Brain is append-only: no step of AddSentence, of generation or
\* of Save removes a chain from chains, startChains, endChains or any
\* wordChains[w], or a word from any wordsBefore[c] or wordsAfter[c].
C12_AppendOnly == [][Grows(brain, brain')]_vars

\* AddSentence is inside its loop for a further sentence, past the first
\* window, after a generation call returned a sentence.
C12_Witness ==
  /\ wr.pc = "loop" /\ wr.i >= 1
  /\ corpus /= {}
  /\ \E r \in Readers : gen[r].pc = "done" /\ gen[r].ret /= <<>>

\* No chain of Brain b contains the word w.
NeverLearned(b, w) == Get(b.wordChains, w) = {}

\* C15: every generation entry point returns the empty Sentence, without
\* panic, when its target word was never learned (the empty Brain
\* included): a makeSentence call for such a word has returned nil, and a
\* MakeReply call none of whose keywords was learned has no candidate and
\* returns nil.
C15_UnknownWordReturnsEmpty ==
  /\ \A r \in Readers :
       (gen[r].pc /= "idle" /\ NeverLearned(brain, gen[r].w))
         => (gen[r].pc = "done" /\ gen[r].ret = <<>>)
  /\ (rep.pc /= "idle" /\ \A w \in rep.keywords : NeverLearned(brain, w))
       => (rep.ss = <<>> /\ rep.ret = <<>>)

\* MakeReply returned on a Brain that is not empty, after it tried a keyword
\* that was never learned.
C15_Witness ==
  /\ rep.pc = "done"
  /\ rep.keywords /= {}
  /\ \A w \in rep.keywords : NeverLearned(brain, w)
  /\ brain.chains /= {}
  /\ NeverLearned(brain, QuestionMark)

\* A MakeReply call is between the start of its first candidate generation
\* and the end of its last one.
ReplyGenerating ==
  \/ /\ rep.pc = "wait"
     /\ ~(Len(rep.todo) = 1 /\ \E r \in Readers : gen[r].pc = "done")
  \/ /\ rep.pc = "call"
     /\ rep.todo /= <<>>
     /\ Len(rep.todo) < Cardinality(rep.keywords)

\* C16 as stated: no AddSentence takes effect between the start of a
\* MakeReply call's first candidate generation and the end of its last one:
\* no step taken in between changes the Brain.
C16_ReplyHoldsLockThroughout == [][ReplyGenerating => brain' = brain]_vars

\* C16 as amended: each candidate generation of a MakeReply call holds the
\* reader lock from its lookup to its return, and no AddSentence takes
\* effect during it: while a walk is under way its goroutine is among the
\* lock's readers, no writer holds the lock and no step changes the Brain.
C16_CandidateHoldsLock ==
  /\ [][(\E r \in Readers : InCS(r)) => brain' = brain]_vars
  /\ [](\A r \in Readers : InCS(r) => (r \in mut.readers /\ ~mut.writer))

\* The walk for a further candidate of a reply is under way while an
\* AddSentence call waits in Lock().
C16_Witness ==
  /\ rep.pc = "wait"
  /\ Len(rep.ss) >= 1
  /\ \E r \in Readers : InCS(r)
  /\ wr.pc = "lock"

\* The proper nouns, the nouns and the words of all input sentences.
InputProperNouns(ss) == {w \in UNION {SentenceWords(ss[k]) : k \in 1..Len(ss)} : IsProperNoun(w)}

InputNouns(ss) == {w \in UNION {SentenceWords(ss[k]) : k \in 1..Len(ss)} : IsNoun(w)}

InputWords(ss) == UNION {SentenceWords(ss[k]) : k \in 1..Len(ss)}

\* C17: MakeReply's keyword set is the union of the inputs' proper nouns
\* when that union has two distinct words or more, otherwise the union of
\* the inputs' nouns; with an empty keyword set the call has returned the
\* empty Sentence and no generation was attempted.
C17_KeywordSet ==
  rep.pc /= "idle" =>
    /\ rep.keywords = IF Cardinality(InputProperNouns(rep.input)) >= 2
                      THEN InputProperNouns(rep.input)
                      ELSE InputNouns(rep.input)
    /\ rep.keywords = {} =>
         /\ rep.pc = "done" /\ rep.ret = <<>> /\ rep.ss = <<>>
         /\ \A r \in Readers : gen[r] = IdleGen

\* A reply to two sentences with two proper nouns and a common noun between
\* them: the keywords are the proper nouns, not all the nouns.
C17_Witness ==
  /\ rep.pc /= "idle"
  /\ Len(rep.input) = 2
  /\ Cardinality(InputProperNouns(rep.input)) = 2
  /\ rep.keywords = InputProperNouns(rep.input)
  /\ rep.keywords /= InputNouns(rep.input)
  /\ rep.ss /= <<>>

\* The score of candidate s for the inputs ss, counted position by position.
ClaimScore(s, ss) ==
    2 * Cardinality({k \in 1..Len(s) : IsProperNoun(s[k])})
  + 3 * Cardinality({k \in 1..Len(s) : s[k] \in InputNouns(ss)})
  + 4 * Cardinality({k \in 1..Len(s) : s[k] \in InputProperNouns(ss)})
  + Cardinality({k \in 1..Len(s) : s[k] \in InputWords(ss)})

\* C18: MakeReply returns empty iff no keyword produced a non-empty
\* candidate; otherwise it returns the first, in the order of generation, of
\* the candidates whose score is maximal.
C18_FirstBestCandidate ==
  rep.pc = "done" =>
    /\ rep.ret = <<>> <=> rep.ss = <<>>
    /\ \A k \in 1..Len(rep.ss) : rep.ss[k] /= <<>>
    /\ rep.ss /= <<>> =>
         \E k \in 1..Len(rep.ss) :
           /\ rep.ret = rep.ss[k]
           /\ \A j \in 1..Len(rep.ss) :
                ClaimScore(rep.ss[j], rep.input) <= ClaimScore(rep.ss[k], rep.input)
           /\ \A j \in 1..(k - 1) :
                ClaimScore(rep.ss[j], rep.input) < ClaimScore(rep.ss[k], rep.input)

\* MakeReply returned its second candidate, which scores higher than the
\* first.
C18_Witness ==
  /\ rep.pc = "done"
  /\ Len(rep.ss) = 2
  /\ rep.ret = rep.ss[2]
  /\ ClaimScore(rep.ss[1], rep.input) < ClaimScore(rep.ss[2], rep.input)
  /\ ClaimScore(rep.ss[1], rep.input) > 0

\* C25: generation and Save are read-only: every step of a call of
\* MakeSentenceWithKeyword, MakeSentenceStartingKeyword, MakeQuestion,
\* MakeReason or MakeReply (the lookup, each iteration of either walk, the
\* return, the steps of the reply) and Save leave chains, wordChains,
\* wordsBefore, wordsAfter, startChains and endChains as they are, the key
\* sets of the maps included.
C25_GenerationAndSaveReadOnly ==
  [][(gen' /= gen \/ rep' /= rep \/ file' /= file \/ saved' /= saved)
       => /\ brain' = brain
          /\ DOMAIN brain'.wordChains = DOMAIN brain.wordChains
          /\ DOMAIN brain'.wordsBefore = DOMAIN brain.wordsBefore
          /\ DOMAIN brain'.wordsAfter = DOMAIN brain.wordsAfter]_vars

\* A reply was made from two keywords: one is unknown and has no entry in
\* wordChains after its lookup, the other gave a candidate that a walk
\* extended by a shift, and every key of wordsBefore and wordsAfter is a
\* learned chain.
C25_Witness ==
  /\ rep.pc = "done"
  /\ \E w \in rep.keywords : w \notin DOMAIN brain.wordChains
  /\ \E k \in 1..Len(rep.ss) : Len(rep.ss[k]) > chainLen
  /\ DOMAIN brain.wordsBefore \cup DOMAIN brain.wordsAfter \subseteq brain.chains

----------------------------------------------------------------------------
(***************************************************************************)
(* Claims checked under SpecLoad.                                          *)
(***************************************************************************)
\* `loaded` is what LoadBrain returned for the bytes of the file as it is
\* now, read without an error of the reader.
LoadedCurrent ==
  loaded /= NotLoaded /\ file /= NoFile /\ loaded = LoadBrain(Reading(file))

\* LoadBrain returned an error and no Brain.
LoadFailedWith(e) == loaded.err = e /\ DOMAIN loaded = {"err"}

\* C19: LoadBrain on a stream shorter than 4 bytes, or whose first 4 bytes
\* are not the magic value, fails with "not a brain file" and returns no
\* Brain; and no load changes the Brain the program has.
C19_NotABrainFile ==
  /\ []((LoadedCurrent /\ (Len(file.magic) < 4 \/ file.magic /= fMagic))
         => LoadFailedWith("not a brain file"))
  /\ [][loaded' /= loaded => brain' = brain]_vars

\* A file that Save wrote with a chain record or more got other bytes in
\* place of the magic value and was loaded, by a program whose Brain is not
\* empty.
C19_Witness ==
  /\ LoadedCurrent
  /\ Len(file.magic) = 4 /\ file.magic /= fMagic
  /\ file.doc /= <<>> /\ Len(file.doc.chains) >= 1
  /\ brain.chains /= {}

\* C20: LoadBrain fails and returns no Brain, not even a partly filled one,
\* when the declared chain length is not chainLen or when any chain
\* record's word list has another length than chainLen, whatever records
\* came before it.
C20_WrongLengthFailsWhole ==
  (LoadedCurrent /\ file.magic = fMagic /\ ~Undecodable(file.doc)) =>
    /\ file.doc.chainLen /= chainLen => LoadFailedWith("wrong chain length")
    /\ (/\ file.doc.chainLen = chainLen
        /\ \E k \in 1..Len(file.doc.chains) : Len(file.doc.chains[k].w) /= chainLen)
       => LoadFailedWith("chain has wrong length")

\* A file was loaded whose second or later chain record has a word list of
\* the wrong length, after records that are well-formed.
C20_Witness ==
  /\ LoadedCurrent /\ file.magic = fMagic /\ ~Undecodable(file.doc)
  /\ file.doc.chainLen = chainLen
  /\ \E k \in 2..Len(file.doc.chains) :
       /\ Len(file.doc.chains[k].w) /= chainLen
       /\ \A j \in 1..(k - 1) : Len(file.doc.chains[j].w) = chainLen

----------------------------------------------------------------------------
(***************************************************************************)
(* Claims checked under SpecIndex.                                         *)
(***************************************************************************)
\* The Word that index i of file f stands for, an index outside the word
\* table standing for the zero Word.
WordAt(f, i) ==
  IF InTable(f, i)
  THEN [Tag |-> f.doc.words[i + 1][2], Text |-> f.doc.words[i + 1][1]]
  ELSE ZeroWord

\* The chain that chain record k of file f stands for.
ChainAt(f, k) == [p \in 1..chainLen |-> WordAt(f, f.doc.chains[k].w[p])]

\* C21: LoadBrain does not fail on a word index that is negative or not
\* below the number of words of the table, be it in a chain's words, in its
\* wordsAfter list or in its wordsBefore list: the load succeeds, and the
\* Brain has every record's chain, its wordsAfter and its wordsBefore with
\* the zero Word where such an index stands.
C21_OutOfRangeIndexIsZeroWord ==
  (LoadedCurrent /\ WellFormed(file) /\ ~InRange(file)) =>
    /\ loaded.err = ""
    /\ loaded.brain.chains = {ChainAt(file, k) : k \in 1..Len(file.doc.chains)}
    /\ \A k \in 1..Len(file.doc.chains) :
         LET fc == file.doc.chains[k]
             c  == ChainAt(file, k)
         IN /\ \A p \in 1..chainLen :
                 ~InTable(file, fc.w[p]) =>
                   (c[p] = ZeroWord /\ c \in Get(loaded.brain.wordChains, ZeroWord))
            /\ \A p \in 1..Len(fc.a) :
                 WordAt(file, fc.a[p]) \in Get(loaded.brain.wordsAfter, c)
            /\ \A p \in 1..Len(fc.b) :
                 WordAt(file, fc.b[p]) \in Get(loaded.brain.wordsBefore, c)

\* A file with an index outside the word table in a wordsBefore list was
\* loaded, and the zero Word is in wordsBefore of that record's chain.
C21_Witness ==
  /\ LoadedCurrent /\ WellFormed(file) /\ loaded.err = ""
  /\ \E k \in 1..Len(file.doc.chains) :
       /\ file.doc.chains[k].b /= <<>>
       /\ ~InTable(file, file.doc.chains[k].b[1])
       /\ ZeroWord \in Get(loaded.brain.wordsBefore, ChainAt(file, k))

----------------------------------------------------------------------------
(***************************************************************************)
(* Claims checked under SpecSets.                                          *)
(***************************************************************************)
\* A call of ChooseRandom, of either set type, has returned.
ChoseRandom == setop.op \in {"WordSet.ChooseRandom", "chainSet.ChooseRandom"}

\* C22: WordSet.Union returns the union of the receiver and all of the
\* other given sets: for every receiver s and every list of sets others, a
\* word is in the result iff it is in s or in at least one element of
\* others (a nil result counting as the empty set).
C22_UnionIsUnion ==
  setop.op = "Union" =>
    \A w \in SetWords :
      w \in setop.ret <=>
        (w \in setop.s \/ \E k \in 1..Len(setop.others) : w \in setop.others[k])

\* C23: for every set s and every n >= 0, WordSet.ChooseRandom(n) and
\* chainSet.ChooseRandom(n) return a slice of n or fewer elements, exactly
\* min(n, |s|) of them, all pairwise distinct members of s; the set itself
\* is unchanged.
C23_ChoosesMinOfNAndSize ==
  ChoseRandom =>
    /\ Len(setop.ret) <= setop.n
    /\ Len(setop.ret) = IF setop.n <= Cardinality(setop.s)
                        THEN setop.n ELSE Cardinality(setop.s)
    /\ \A i, j \in 1..Len(setop.ret) : setop.ret[i] = setop.ret[j] => i = j
    /\ \A i \in 1..Len(setop.ret) : setop.ret[i] \in setop.s
    /\ setop.after = setop.s

----------------------------------------------------------------------------
(***************************************************************************)
(* Claims checked under SpecConc.                                          *)
(***************************************************************************)
\* C4: AddSentence is atomic for generation.  No walk is under way while
\* AddSentence is inside its loop, and whenever AddSentence is not inside
\* its loop (so whenever makeSentence reads the Brain) every sentence is
\* indexed in full or not at all: the Brain is exactly the index of the
\* sentences of the completed calls.
C4_AddSentenceAtomic ==
  /\ \A r \in Readers : InCS(r) => (wr.pc /= "loop" /\ r \in mut.readers)
  /\ wr.pc = "loop" <=> mut.writer
  /\ mut.writer => mut.readers = {}
  /\ wr.pc /= "loop" => IndexOf_Corpus(brain, corpus)

\* An AddSentence call waits in Lock() for a walk that has already added a
\* word, on a Brain that holds an earlier sentence.
C4_Witness ==
  \E r \in Readers :
    /\ InCS(r) /\ gen[r].before /= <<>>
    /\ wr.pc = "lock" /\ mut.pending
    /\ corpus /= {}

====
